---------------------------- MODULE Spec2Model ----------------------------
(***************************************************************************)
(* Execution-and-staging engine of trialytics' backend services.           *)
(*                                                                         *)
(* Three Modal applications, each living in a process of its own:          *)
(*   fastapi-python-sandbox  modal_server/modal_executor.py                *)
(*                           (execute_code and its remote wrapper run_code)*)
(*   quick-python-sandbox    modal_quick_sandbox.py (run)                  *)
(*   python-sandbox-test     modal_sandbox_test.py                         *)
(*                           (run_code, run_notebook_cell and the callers  *)
(*                           main and interactive)                         *)
(*                                                                         *)
(* Text is a sequence of chunks (strings), concatenated with \o.  A name   *)
(* is a sequence of characters and word chunks, so that startswith('__')   *)
(* is computed.  A value is a record [tag, v]: tag is type(value).__name__ *)
(* and v the chunks of its content.  A namespace is a function from names  *)
(* to values.                                                              *)
(***************************************************************************)
EXTENDS Integers, Sequences, FiniteSets, TLC

VARIABLES
  app,           \* which application this process hosts
  sysStdout,     \* sys.stdout of the process
  sysStderr,     \* sys.stderr of the process
  quickGlobals,  \* module globals of modal_quick_sandbox added by executed code
  state,         \* the session state the caller holds between cells
  handed,        \* the cell whose returned state the caller holds
  pc,            \* "idle": between calls; "done": a call has ended
  call,          \* the arguments and the environment of the last call
  result,        \* what the last call gave its caller
  obs,           \* what happened inside the last call
  modal         \* the containers of execute_code and the calls running in them

vars == <<app, sysStdout, sysStderr, quickGlobals, state, handed, pc, call, result, obs, modal>>

(* Longest code string, in statements. *)
MaxStmts == 2

-----------------------------------------------------------------------------
(* Names *)

NameX == <<"x">>
NameM == <<"m">>
NameT == <<"_", "_", "t">>
NameOutputContent == <<"output_content">>
NameBuiltins == <<"_", "_", "builtins", "_", "_">>
NameFileContent == <<"file_content">>
NameDf == <<"df">>
NameMeta == <<"meta">>
NamePdfReader == <<"pdf_reader">>
NameResult == <<"result">>
NameOutput == <<"output">>

(* key.startswith('__') *)
StartsWithDunder(key) == Len(key) >= 2 /\ key[1] = "_" /\ key[2] = "_"

(* Names of the engine's own bindings, in execute_code's namespace and in
   the scope run executes in. *)
ExecutorBindings == {<<"requests">>, <<"pd">>, <<"np">>, <<"io">>}
InputBindings == {NameFileContent, NameDf, NameMeta, NamePdfReader}
QuickLocals == {<<"code">>, <<"io">>, <<"sys">>, <<"traceback">>, <<"stdout">>, <<"stderr">>}
QuickModuleGlobals == {<<"modal">>, <<"sys">>, <<"app">>, <<"image">>, <<"run">>, <<"main">>, <<"test_packages">>}

-----------------------------------------------------------------------------
(* Values *)

IntV(digits) == [tag |-> "int", v |-> <<digits>>]
StrV(chunks) == [tag |-> "str", v |-> chunks]
BytesV(chunks) == [tag |-> "bytes", v |-> chunks]
ModuleV(name) == [tag |-> "module", v |-> <<name>>]
ObjectV(type, what) == [tag |-> type, v |-> <<what>>]
BuiltinsV == ObjectV("dict", "builtins")

(* A pandas DataFrame: its header line and its rows, each the text of its
   cells joined by commas; the index is the default one, 0, 1, ... *)
TableV(lines) == [tag |-> "DataFrame", v |-> lines]

(* A dictionary with one key: {key: value} *)
DictV(key, value) == [tag |-> "dict", v |-> <<key, value>>]

NoneV == [tag |-> "NoneType", v |-> <<>>]

(* type(value).__name__ *)
TypeName(value) == value.tag

(* str(value) *)
Str(value) ==
  IF value.tag \in {"str", "int"} THEN value.v
  ELSE <<"<", value.tag, " ">> \o value.v \o <<">">>

(* The serializability probe: pickle.dumps(value) raises nothing. *)
Picklable(value) == value.tag \in {"int", "str", "bytes", "DataFrame", "dict", "NoneType"}

EmptyNs == [n \in {} |-> BuiltinsV]

Put(ns, name, value) ==
  [k \in DOMAIN ns \cup {name} |-> IF k = name THEN value ELSE ns[k]]

-----------------------------------------------------------------------------
(* Code strings: a malformed string, or a sequence of statements. *)

Stmt(op, name, val, text) == [op |-> op, name |-> name, val |-> val, text |-> text]
NoVal == IntV("0")

Statements ==
  { Stmt("print", <<>>, NoVal, "a"),                    \* print('a')
    Stmt("print", <<>>, NoVal, "Successfully uploaded to S3"),
                                         \* print('Successfully uploaded to S3')
    Stmt("eprint", <<>>, NoVal, "w"),                   \* print('w', file=sys.stderr)
    Stmt("bind", NameX, IntV("1"), ""),                 \* x = 1
    Stmt("bind", NameX, StrV(<<"s">>), ""),              \* x = 's'
    Stmt("bind", NameM, ModuleV("pandas"), ""),         \* import pandas as m
    Stmt("bind", NameT, IntV("1"), ""),                 \* __t = 1
    Stmt("bind", NameOutputContent, StrV(<<"hello">>), ""), \* output_content = 'hello'
    Stmt("bind", NameOutputContent, TableV(<<"a,b", "1,2">>), ""),
                                         \* output_content = pd.DataFrame({'a': [1], 'b': [2]})
    Stmt("bind", NameOutputContent, BytesV(<<"hi">>), ""), \* output_content = b'hi'
    Stmt("bind", NameOutputContent, IntV("1"), ""),      \* output_content = 1
    Stmt("bind", NameOutputContent, DictV("a", "1"), ""), \* output_content = {'a': '1'}
    Stmt("bind", NameOutputContent, NoneV, ""),          \* output_content = None
    Stmt("gbind", NameX, IntV("1"), ""),                \* global x; x = 1
    Stmt("printvar", NameX, NoVal, ""),                 \* print(x)
    Stmt("raise", <<>>, NoVal, "ZeroDivisionError"),    \* 1 / 0
    Stmt("raise", <<>>, NoVal, "SystemExit") }          \* sys.exit()

(* The fault kinds that derive from Exception; SystemExit, KeyboardInterrupt
   and GeneratorExit derive from BaseException only. *)
ExceptionKinds == {"ZeroDivisionError", "NameError", "SyntaxError", "HTTPError",
                   "ParserError", "ReadstatError", "PdfReadError", "TypeError",
                   "TypeError/len", "FunctionTimeoutError"}

(* type(e).__name__: two faults of the model are TypeErrors, the one raised
   by requests.put and the one raised by len(). *)
ExcName(kind) == IF kind = "TypeError/len" THEN "TypeError" ELSE kind

IsException(kind) == kind \in ExceptionKinds

(* str(e) *)
FaultMessage(kind) ==
  CASE kind = "ZeroDivisionError" -> <<"division by zero">>
    [] kind = "NameError" -> <<"name is not defined">>
    [] kind = "SyntaxError" -> <<"invalid syntax">>
    [] kind = "HTTPError" -> <<"403 Client Error">>
    [] kind = "ParserError" -> <<"Error tokenizing data">>
    [] kind = "ReadstatError" -> <<"Invalid file, or file has unsupported features">>
    [] kind = "PdfReadError" -> <<"EOF marker not found">>
    [] kind = "TypeError" -> <<"'body' must be a bytes-like object, file-like object, or iterable">>
    [] kind = "TypeError/len" -> <<"object of type 'NoneType' has no len()">>
    [] kind = "FunctionTimeoutError" -> <<"Task timed out">>
    [] OTHER -> <<>>

SeqsUpTo(S, n) == UNION { [1..k -> S] : k \in 0..n }

Codes ==
  { [wellformed |-> FALSE, stmts |-> <<>>] } \cup
  { [wellformed |-> TRUE, stmts |-> s] : s \in SeqsUpTo(Statements, MaxStmts) }


-----------------------------------------------------------------------------
(* exec(code, globals, locals) *)

NoFault == "none"

(* The scope a code string runs in.  shared: exec(code, ns), one dictionary
   is both globals and locals.  Otherwise exec(code) in a function: l is the
   frame's locals, g the module's globals. *)
Scope(g, l, shared) ==
  [g |-> g, l |-> l, shared |-> shared, out |-> <<>>, err |-> <<>>, fault |-> NoFault,
   bound |-> {}]

Visible(sc) == IF sc.shared THEN DOMAIN sc.g ELSE DOMAIN sc.l \cup DOMAIN sc.g

Lookup(sc, name) ==
  IF ~sc.shared /\ name \in DOMAIN sc.l THEN sc.l[name] ELSE sc.g[name]

(* RunStmt with a print that leaves out the line end. *)
RunStmtNoLineEnd(sc, st) ==
  CASE st.op = "print" -> [sc EXCEPT !.out = @ \o <<st.text>>]
    [] st.op = "eprint" -> [sc EXCEPT !.err = @ \o <<st.text, "\n">>]
    [] st.op \in {"bind", "gbind"} ->
         IF sc.shared \/ st.op = "gbind"
         THEN [sc EXCEPT !.g = Put(@, st.name, st.val), !.bound = @ \cup {st.name}]
         ELSE [sc EXCEPT !.l = Put(@, st.name, st.val), !.bound = @ \cup {st.name}]
    [] st.op = "printvar" ->
         IF st.name \in Visible(sc)
         THEN [sc EXCEPT !.out = @ \o Str(Lookup(sc, st.name))]
         ELSE [sc EXCEPT !.fault = "NameError"]
    [] st.op = "raise" -> [sc EXCEPT !.fault = st.text]

(* One statement, run in scope sc.  print writes its text and the line end
   to sys.stdout, which every harness has replaced by its buffer. *)
RunStmt(sc, st) ==
  CASE st.op = "print" -> [sc EXCEPT !.out = @ \o <<st.text, "\n">>]
    [] st.op = "eprint" -> [sc EXCEPT !.err = @ \o <<st.text, "\n">>]
    [] st.op = "bind" ->
         IF sc.shared
         THEN [sc EXCEPT !.g = Put(@, st.name, st.val), !.bound = @ \cup {st.name}]
         ELSE [sc EXCEPT !.l = Put(@, st.name, st.val), !.bound = @ \cup {st.name}]
    [] st.op = "gbind" ->
         [sc EXCEPT !.g = Put(@, st.name, st.val), !.bound = @ \cup {st.name}]
    [] st.op = "printvar" ->
         IF st.name \in Visible(sc)
         THEN [sc EXCEPT !.out = @ \o Str(Lookup(sc, st.name)) \o <<"\n">>]
         ELSE [sc EXCEPT !.fault = "NameError"]
    [] st.op = "raise" -> [sc EXCEPT !.fault = st.text]

RECURSIVE RunStmts(_, _, _)
RunStmts(sc, stmts, i) ==
  IF i > Len(stmts) \/ sc.fault # NoFault THEN sc
  ELSE RunStmts(RunStmt(sc, stmts[i]), stmts, i + 1)

(* exec inserts __builtins__ into the globals when they lack it, then
   compiles the string (SyntaxError), then runs it; a fault aborts the rest. *)
Exec(code, sc) ==
  LET sc1 == IF NameBuiltins \in DOMAIN sc.g THEN sc
             ELSE [sc EXCEPT !.g = Put(@, NameBuiltins, BuiltinsV)]
  IN IF ~code.wellformed THEN [sc1 EXCEPT !.fault = "SyntaxError"]
     ELSE RunStmts(sc1, code.stmts, 1)

-----------------------------------------------------------------------------
(* Results *)

(* traceback.format_exc() *)
FormatExc(kind) ==
  <<"Traceback (most recent call last):\n", ExcName(kind), ": ">> \o FaultMessage(kind)
    \o <<"\n">>

(* f"{type(e).__name__}: {e}\n{traceback.format_exc()}" *)
TypedError(kind) ==
  <<ExcName(kind), ": ">> \o FaultMessage(kind) \o <<"\n">> \o FormatExc(kind)

(* f"{e}\n{traceback.format_exc()}" *)
UntypedError(kind) == FaultMessage(kind) \o <<"\n">> \o FormatExc(kind)

(* A result dictionary.  error_none: the error field is None. *)
Result(success, output, error, errorNone, st, rv) ==
  [kind |-> "result", success |-> success, output |-> output, error |-> error,
   error_none |-> errorNone, state |-> st, return_value |-> rv]

(* No result: the fault left the function. *)
Propagated == [kind |-> "propagated", success |-> FALSE, output |-> <<>>, error |-> <<>>,
               error_none |-> TRUE, state |-> EmptyNs, return_value |-> <<>>]

NoResult == [kind |-> "none", success |-> FALSE, output |-> <<>>, error |-> <<>>,
             error_none |-> TRUE, state |-> EmptyNs, return_value |-> <<>>]


(* What happened inside a call: the text the code printed and wrote to the
   error stream, all the text written to the output buffer (the engine's own
   lines included), the fault and the step it arose in, whether exec was
   reached, the namespace the code sees as it starts, the names it bound and
   the namespace it leaves, the fetches made and the calls of requests.put. *)
Obs(printed, eprinted, written, fault, stage, ran, startNs, bound, endNs, fetches, uploads) ==
  [printed |-> printed, eprinted |-> eprinted, written |-> written, fault |-> fault,
   stage |-> stage, ran |-> ran, startNs |-> startNs, bound |-> bound, endNs |-> endNs,
   fetches |-> fetches, uploads |-> uploads]

NoObs == Obs(<<>>, <<>>, <<>>, NoFault, "none", FALSE, EmptyNs, {}, EmptyNs, 0, <<>>)

-----------------------------------------------------------------------------
(* modal_executor.execute_code *)

(* The body behind every input URL. *)
FileBody == <<"a,b", "\n", "1,2", "\n", "3,4", "\n", "5,6">>

(* len() of a text or of bytes: the lengths of its chunks, added up. *)
RECURSIVE ByteLen(_)
ByteLen(chunks) == IF chunks = <<>> THEN 0 ELSE Len(Head(chunks)) + ByteLen(Tail(chunks))

(* pd.read_csv(io.BytesIO(file_content)): the lines of the file. *)
ReadCsv(content) == TableV(SelectSeq(content.v, LAMBDA c : c # "\n"))

(* df.shape[0]: the rows under the header. *)
Rows(table) == Len(table.v) - 1

(* df.to_csv(index=...): every line and its line end; with the index, the
   row number (nothing for the header) and a comma come first. *)
ToCsv(table, index) ==
  IF index
  THEN [i \in 1..(4 * Len(table.v)) |->
          CASE i % 4 = 1 -> IF i = 1 THEN "" ELSE ToString((i - 1) \div 4 - 1)
            [] i % 4 = 2 -> ","
            [] i % 4 = 3 -> table.v[(i + 1) \div 4]
            [] OTHER -> "\n"]
  ELSE [i \in 1..(2 * Len(table.v)) |->
          IF i % 2 = 1 THEN table.v[(i + 1) \div 2] ELSE "\n"]

MsgDownloading == <<"Downloading input file from S3...", "\n">>
MsgDownloaded == <<"Downloaded ", ToString(ByteLen(FileBody)), " bytes", "\n">>
MsgLoadedTable(kind, df) ==
  <<"Loaded ", kind, ": ", ToString(Rows(df)), " rows, ", "2", " columns", "\n",
    "Columns: ", df.v[1], "\n">>
MsgLoadedPdf == <<"Loaded PDF: ", "1", " pages", "\n">>
MsgUploading == <<"\n", "Uploading output file to S3...", "\n">>
MsgUploaded(n) == <<"Successfully uploaded to S3", " (", n, " bytes)", "\n">>

(* print("\n=== Executing User Code ===\n") *)
Banner == <<"\n=== Executing User Code ===\n", "\n">>

(* exec_namespace = {'__builtins__': ..., requests, pd, np, io} *)
ExecutorNamespace ==
  [n \in {NameBuiltins} \cup ExecutorBindings |->
     IF n = NameBuiltins THEN BuiltinsV ELSE ModuleV(n[1])]

(* InputStep with one of its lines changed: "raw by hint" binds file_content
   only when no decoder runs, "no meta" leaves meta unbound, "no status"
   leaves out raise_for_status, "swallow" goes on after a decoding fault,
   "retry" fetches a second time when the first fetch is refused. *)
InputStepVariant(inp, ns, variant) ==
  IF ~inp.url THEN [ns |-> ns, out |-> <<>>, fault |-> NoFault, fetches |-> 0]
  ELSE IF inp.fetch # "ok" /\ variant # "no status"
  THEN [ns |-> ns, out |-> MsgDownloading, fault |-> "HTTPError",
        fetches |-> IF variant = "retry" THEN 2 ELSE 1]
  ELSE
    LET ns1 == IF variant = "raw by hint" /\ inp.hint \in {"csv", "xpt", "pdf"} THEN ns
               ELSE Put(ns, NameFileContent, BytesV(FileBody))
        out1 == MsgDownloading \o MsgDownloaded
        bad(kind) == IF variant = "swallow"
                     THEN [ns |-> ns1, out |-> out1, fault |-> NoFault, fetches |-> 1]
                     ELSE [ns |-> ns1, out |-> out1, fault |-> kind, fetches |-> 1]
        good(ns2, msg) == [ns |-> ns2, out |-> out1 \o msg, fault |-> NoFault, fetches |-> 1]
        df == ReadCsv(BytesV(FileBody))
    IN CASE inp.hint = "csv" ->
              IF inp.decode # "ok" THEN bad("ParserError")
              ELSE good(Put(ns1, NameDf, df), MsgLoadedTable("CSV", df))
         [] inp.hint = "xpt" ->
              IF inp.decode # "ok" THEN bad("ReadstatError")
              ELSE good(IF variant = "no meta" THEN Put(ns1, NameDf, df)
                        ELSE Put(Put(ns1, NameDf, df),
                                 NameMeta, ObjectV("metadata_container", "meta")),
                        MsgLoadedTable("XPT", df))
         [] inp.hint = "pdf" ->
              IF inp.decode # "ok" THEN bad("PdfReadError")
              ELSE good(Put(ns1, NamePdfReader, ObjectV("PdfReader", "1 page")), MsgLoadedPdf)
         [] OTHER -> good(ns1, <<>>)

InputStepRawByHint(inp, ns) == InputStepVariant(inp, ns, "raw by hint")
InputStepWithoutMeta(inp, ns) == InputStepVariant(inp, ns, "no meta")
InputStepWithoutStatusCheck(inp, ns) == InputStepVariant(inp, ns, "no status")
InputStepSwallowsDecodeFault(inp, ns) == InputStepVariant(inp, ns, "swallow")
InputStepRetries(inp, ns) == InputStepVariant(inp, ns, "retry")

(* Lines 79-108: fetch, bind file_content, decode by file_type. *)
InputStep(inp, ns) ==
  IF ~inp.url THEN [ns |-> ns, out |-> <<>>, fault |-> NoFault, fetches |-> 0]
  ELSE IF inp.fetch # "ok"
  THEN [ns |-> ns, out |-> MsgDownloading, fault |-> "HTTPError", fetches |-> 1]
  ELSE
    LET ns1 == Put(ns, NameFileContent, BytesV(FileBody))
        out1 == MsgDownloading \o MsgDownloaded
        bad(kind) == [ns |-> ns1, out |-> out1, fault |-> kind, fetches |-> 1]
        good(ns2, msg) == [ns |-> ns2, out |-> out1 \o msg, fault |-> NoFault, fetches |-> 1]
    IN CASE inp.hint = "csv" ->
              IF inp.decode # "ok" THEN bad("ParserError")
              ELSE good(Put(ns1, NameDf, ReadCsv(BytesV(FileBody))),
                        MsgLoadedTable("CSV", ReadCsv(BytesV(FileBody))))
         [] inp.hint = "xpt" ->
              IF inp.decode # "ok" THEN bad("ReadstatError")
              ELSE good(Put(Put(ns1, NameDf, ReadCsv(BytesV(FileBody))),
                            NameMeta, ObjectV("metadata_container", "meta")),
                        MsgLoadedTable("XPT", ReadCsv(BytesV(FileBody))))
         [] inp.hint = "pdf" ->
              IF inp.decode # "ok" THEN bad("PdfReadError")
              ELSE good(Put(ns1, NamePdfReader, ObjectV("PdfReader", "1 page")), MsgLoadedPdf)
         [] OTHER -> good(ns1, <<>>)

(* OutputBytes writing the table with its index column. *)
OutputBytesWithIndex(value) ==
  CASE value.tag = "str" -> BytesV(value.v)
    [] value.tag = "DataFrame" -> BytesV(ToCsv(value, TRUE))
    [] OTHER -> value

(* Lines 119-125: output_bytes, by the runtime type of output_content. *)
OutputBytes(value) ==
  CASE value.tag = "str" -> BytesV(value.v)
    [] value.tag = "DataFrame" -> BytesV(ToCsv(value, FALSE))
    [] OTHER -> value

(* requests.put(url, data=...): bytes go out as they are, a dictionary goes
   out form-encoded and None as an empty body; a number is no body, the
   request is refused with a TypeError before anything is sent. *)
Sendable(data) == data.tag \in {"bytes", "dict", "NoneType"}

(* len(output_bytes) can be taken. *)
HasLen(data) == data.tag \in {"bytes", "dict"}

RequestBody(data) == IF data.tag = "dict" THEN <<data.v[1], "=", data.v[2]>> ELSE data.v

(* len(output_bytes), formatted: the bytes of a bytes value, the keys of a
   dictionary. *)
LenText(data) == IF data.tag = "dict" THEN "1" ELSE ToString(ByteLen(data.v))

(* One call of requests.put: the data handed to it, whether a request went
   out, the body on the wire, and whether the store accepted it. *)
PutCall(data, sent, accepted) ==
  [data |-> data, sent |-> sent, body |-> IF sent THEN RequestBody(data) ELSE <<>>,
   accepted |-> accepted]

(* OutputStep that does not look for output_content in the namespace. *)
OutputStepUnconditional(outp, ns) ==
  IF ~outp.url
  THEN [out |-> <<>>, fault |-> NoFault, uploads |-> <<>>]
  ELSE
    LET data == IF NameOutputContent \in DOMAIN ns THEN OutputBytes(ns[NameOutputContent])
                ELSE BytesV(<<>>)
    IN IF ~Sendable(data)
       THEN [out |-> MsgUploading, fault |-> "TypeError",
             uploads |-> <<PutCall(data, FALSE, FALSE)>>]
       ELSE IF outp.put # "ok"
       THEN [out |-> MsgUploading, fault |-> "HTTPError",
             uploads |-> <<PutCall(data, TRUE, FALSE)>>]
       ELSE IF ~HasLen(data)
       THEN [out |-> MsgUploading, fault |-> "TypeError/len",
             uploads |-> <<PutCall(data, TRUE, TRUE)>>]
       ELSE [out |-> MsgUploading \o MsgUploaded(LenText(data)), fault |-> NoFault,
             uploads |-> <<PutCall(data, TRUE, TRUE)>>]

(* Lines 115-134: the upload, when an output URL is given and output_content
   is bound; raise_for_status turns a refusal of the store into a fault, and
   the line printed after the upload takes len(output_bytes). *)
OutputStep(outp, ns) ==
  IF ~(outp.url /\ NameOutputContent \in DOMAIN ns)
  THEN [out |-> <<>>, fault |-> NoFault, uploads |-> <<>>]
  ELSE
    LET data == OutputBytes(ns[NameOutputContent])
    IN IF ~Sendable(data)
       THEN [out |-> MsgUploading, fault |-> "TypeError",
             uploads |-> <<PutCall(data, FALSE, FALSE)>>]
       ELSE IF outp.put # "ok"
       THEN [out |-> MsgUploading, fault |-> "HTTPError",
             uploads |-> <<PutCall(data, TRUE, FALSE)>>]
       ELSE IF ~HasLen(data)
       THEN [out |-> MsgUploading, fault |-> "TypeError/len",
             uploads |-> <<PutCall(data, TRUE, TRUE)>>]
       ELSE [out |-> MsgUploading \o MsgUploaded(LenText(data)), fault |-> NoFault,
             uploads |-> <<PutCall(data, TRUE, TRUE)>>]

(* Lines 140-145: the result of a call that raised nothing. *)
ExecutorSuccess(output, error) == Result(TRUE, output, error, error = <<>>, EmptyNs, <<>>)

(* ExecutorFailure with the output left empty, as run_code's handler does. *)
ExecutorFailureNoOutput(output, kind) ==
  IF IsException(kind) THEN Result(FALSE, <<>>, TypedError(kind), FALSE, EmptyNs, <<>>)
  ELSE Propagated

(* Lines 147-153: except Exception.  A fault that is no Exception passes
   the handler and leaves the function. *)
ExecutorFailure(output, kind) ==
  IF IsException(kind) THEN Result(FALSE, output, TypedError(kind), FALSE, EmptyNs, <<>>)
  ELSE Propagated

(* ExecuteCode with the output step run after a fault of the code too. *)
ExecuteCodeUploadsAfterFault(code, inp, outp) ==
  LET in == InputStep(inp, ExecutorNamespace)
  IN IF in.fault # NoFault
     THEN [result |-> ExecutorFailure(in.out, in.fault),
           obs |-> Obs(<<>>, <<>>, in.out, in.fault, "input", FALSE, EmptyNs, {}, in.ns,
                       in.fetches, <<>>)]
     ELSE
       LET ex == Exec(code, Scope(in.ns, EmptyNs, TRUE))
           written == in.out \o Banner \o ex.out
           up == OutputStep(outp, ex.g)
           all == written \o up.out
       IN IF ex.fault # NoFault
          THEN [result |-> ExecutorFailure(all, ex.fault),
                obs |-> Obs(ex.out, ex.err, all, ex.fault, "code", TRUE,
                            in.ns, ex.bound, ex.g, in.fetches, up.uploads)]
          ELSE IF up.fault # NoFault
          THEN [result |-> ExecutorFailure(all, up.fault),
                obs |-> Obs(ex.out, ex.err, all, up.fault, "output", TRUE,
                            in.ns, ex.bound, ex.g, in.fetches, up.uploads)]
          ELSE [result |-> ExecutorSuccess(all, ex.err),
                obs |-> Obs(ex.out, ex.err, all, NoFault, "none", TRUE,
                            in.ns, ex.bound, ex.g, in.fetches, up.uploads)]

(* execute_code(code, input_file_url, output_file_url, file_type): the result
   and what happened. *)
ExecuteCode(code, inp, outp) ==
  LET in == InputStep(inp, ExecutorNamespace)
  IN IF in.fault # NoFault
     THEN [result |-> ExecutorFailure(in.out, in.fault),
           obs |-> Obs(<<>>, <<>>, in.out, in.fault, "input", FALSE, EmptyNs, {}, in.ns,
                       in.fetches, <<>>)]
     ELSE
       LET ex == Exec(code, Scope(in.ns, EmptyNs, TRUE))
           written == in.out \o Banner \o ex.out
       IN IF ex.fault # NoFault
          THEN [result |-> ExecutorFailure(written, ex.fault),
                obs |-> Obs(ex.out, ex.err, written, ex.fault, "code", TRUE,
                            in.ns, ex.bound, ex.g, in.fetches, <<>>)]
          ELSE
            LET up == OutputStep(outp, ex.g)
                all == written \o up.out
            IN IF up.fault # NoFault
               THEN [result |-> ExecutorFailure(all, up.fault),
                     obs |-> Obs(ex.out, ex.err, all, up.fault, "output", TRUE,
                                 in.ns, ex.bound, ex.g, in.fetches, up.uploads)]
               ELSE [result |-> ExecutorSuccess(all, ex.err),
                     obs |-> Obs(ex.out, ex.err, all, NoFault, "none", TRUE,
                                 in.ns, ex.bound, ex.g, in.fetches, up.uploads)]


-----------------------------------------------------------------------------
(* modal_executor.run_code: the wrapper that dispatches execute_code to a
   remote worker. *)

(* RequestedTimeout without the cap. *)
RequestedTimeoutUncapped(timeout) == timeout

(* timeout=min(timeout, 600) *)
RequestedTimeout(timeout) == IF timeout < 600 THEN timeout ELSE 600

(* memory=4096 if timeout > 120 else 2048 *)
RequestedMemory(timeout) == IF timeout > 120 THEN 4096 ELSE 2048

(* f"Modal execution error: {str(e)}" *)
DispatchError(kind) == <<"Modal execution error: ">> \o FaultMessage(kind)

(* Lines 215-221: except Exception. *)
WrapperFailure(kind) == Result(FALSE, <<>>, DispatchError(kind), FALSE, EmptyNs, <<>>)

(* The remote worker runs on past the code's statements (so that the runtime
   can abandon it on timeout) only when nothing faulted before. *)
RunsOn(code, inp) ==
  LET in == InputStep(inp, ExecutorNamespace)
  IN in.fault = NoFault /\ Exec(code, Scope(in.ns, EmptyNs, TRUE)).fault = NoFault

(* RunCode handing back, on timeout, what the worker had captured. *)
RunCodePartialOnTimeout(code, timeout, inp, outp, dispatch, surface) ==
  LET remote == ExecuteCode(code, inp, outp)
      cut == ExecuteCode(code, inp, [outp EXCEPT !.url = FALSE])
  IN IF dispatch = "timeout"
     THEN [result |-> ExecutorFailure(cut.obs.written, "FunctionTimeoutError"),
           obs |-> [cut.obs EXCEPT !.fault = "FunctionTimeoutError", !.stage = "dispatch"]]
     ELSE IF remote.result.kind = "propagated"
     THEN [result |-> IF surface = "wrapped" THEN WrapperFailure(remote.obs.fault)
                      ELSE Propagated,
           obs |-> [remote.obs EXCEPT !.stage = "dispatch"]]
     ELSE remote

(* run_code(code, timeout, input_file_url, output_file_url, file_type).
   dispatch: "ok", or "timeout" when the runtime abandons the call while the
   code is still running.  surface: how a fault that left execute_code on the
   worker reaches the caller of .remote(), as an Exception ("wrapped") or as
   raised ("raw"). *)
RunCode(code, timeout, inp, outp, dispatch, surface) ==
  LET remote == ExecuteCode(code, inp, outp)
      cut == ExecuteCode(code, inp, [outp EXCEPT !.url = FALSE])
  IN IF dispatch = "timeout"
     THEN [result |-> WrapperFailure("FunctionTimeoutError"),
           obs |-> [cut.obs EXCEPT !.fault = "FunctionTimeoutError", !.stage = "dispatch"]]
     ELSE IF remote.result.kind = "propagated"
     THEN [result |-> IF surface = "wrapped" THEN WrapperFailure(remote.obs.fault)
                      ELSE Propagated,
           obs |-> [remote.obs EXCEPT !.stage = "dispatch"]]
     ELSE remote

-----------------------------------------------------------------------------
(* modal_server/app.py: POST /execute, the request layer in front of run_code *)

(* CodeExecutionRequest.timeout: Field(default=120, ge=1, le=600) *)
ValidTimeout(timeout) == timeout >= 1 /\ timeout <= 600

(* IsBlank letting every code through. *)
IsBlankNever(code) == FALSE

(* not request.code.strip() *)
IsBlank(code) == code.wellformed /\ code.stmts = <<>>

(* Lines 180-184: timeout = max(request.timeout, 300) when a URL is given. *)
EndpointTimeout(timeout, inp, outp) ==
  IF inp.url \/ outp.url THEN (IF timeout > 300 THEN timeout ELSE 300) ELSE timeout

(* An HTTP error response: no execution result is returned. *)
HttpError(status, detail) ==
  [kind |-> "http_error", success |-> FALSE, output |-> <<>>, error |-> <<status, ": ", detail>>,
   error_none |-> FALSE, state |-> EmptyNs, return_value |-> <<>>]

UploadedLine == "Successfully uploaded to S3"
UploadNote == <<"\n\n", "Output file uploaded to S3">>

(* "Successfully uploaded to S3" in result.get('output', '') *)
In(chunk, text) == \E i \in DOMAIN text : text[i] = chunk

(* Lines 199-201: the note appended after an upload. *)
WithUploadNote(outp, r) ==
  IF outp.url /\ r.success /\ In(UploadedLine, r.output)
  THEN [r EXCEPT !.output = @ \o UploadNote]
  ELSE r

(* Lines 196-203: what the endpoint makes of run_code's result r. *)
EndpointResponse(outp, r, timeout) ==
  [result |-> IF r.result.kind = "result" THEN WithUploadNote(outp, r.result) ELSE r.result,
   obs |-> r.obs, reached |-> TRUE, timeout |-> timeout]

(* execute_code(request) of app.py.  reached: run_code was called, with the
   timeout given. *)
ExecuteEndpoint(code, timeout, inp, outp, dispatch, surface) ==
  IF ~ValidTimeout(timeout)
  THEN [result |-> HttpError("422", "timeout out of range"), obs |-> NoObs,
        reached |-> FALSE, timeout |-> timeout]
  ELSE IF IsBlank(code)
  THEN [result |-> HttpError("400", "Code cannot be empty"), obs |-> NoObs,
        reached |-> FALSE, timeout |-> timeout]
  ELSE
    EndpointResponse(outp,
                     RunCode(code, EndpointTimeout(timeout, inp, outp), inp, outp, dispatch,
                             surface),
                     EndpointTimeout(timeout, inp, outp))

-----------------------------------------------------------------------------
(* modal_quick_sandbox.run *)

(* The module's globals as the process starts. *)
QuickModuleNamespace ==
  [n \in {NameBuiltins} \cup QuickModuleGlobals |->
     IF n = NameBuiltins THEN BuiltinsV ELSE ObjectV("object", n[1])]

(* The locals of run's frame when exec(code) is reached. *)
QuickFrameLocals == [n \in QuickLocals |-> ObjectV("object", n[1])]

(* The namespace the code sees: locals first, then globals. *)
Merged(g, l) == [n \in DOMAIN g \cup DOMAIN l |-> IF n \in DOMAIN l THEN l[n] ELSE g[n]]

(* run(code) against the module globals g: the result, what happened, and
   the module globals afterwards. *)
QuickRun(code, g) ==
  LET ex == Exec(code, Scope(g, QuickFrameLocals, FALSE))
      o == Obs(ex.out, ex.err, ex.out, ex.fault, IF ex.fault = NoFault THEN "none" ELSE "code",
               TRUE, Merged(g, QuickFrameLocals), ex.bound, Merged(ex.g, ex.l), 0, <<>>)
  IN [result |-> IF ex.fault = NoFault THEN Result(TRUE, ex.out, ex.err, FALSE, EmptyNs, <<>>)
                 ELSE IF IsException(ex.fault)
                 THEN Result(FALSE, ex.out, UntypedError(ex.fault), FALSE, EmptyNs, <<>>)
                 ELSE Propagated,
      obs |-> o, g |-> ex.g]

-----------------------------------------------------------------------------
(* modal_sandbox_test.run_code *)

(* Lines 81-85: a variable named result or output becomes the return value
   (no statement of Statements defines a function main for lines 76-79). *)
ReturnValue(ns) ==
  IF NameResult \in DOMAIN ns THEN Str(ns[NameResult])
  ELSE IF NameOutput \in DOMAIN ns THEN Str(ns[NameOutput])
  ELSE <<>>

(* Lines 97-101: result["error"] = error_output + result["error"] *)
SandboxError(errorOutput, error) == errorOutput \o error

SandboxRunCode(code) ==
  LET ex == Exec(code, Scope(EmptyNs, EmptyNs, TRUE))
      o == Obs(ex.out, ex.err, ex.out, ex.fault, IF ex.fault = NoFault THEN "none" ELSE "code",
               TRUE, EmptyNs, ex.bound, ex.g, 0, <<>>)
  IN [result |-> IF ex.fault = NoFault
                 THEN Result(TRUE, ex.out, SandboxError(ex.err, <<>>), FALSE, EmptyNs,
                             ReturnValue(ex.g))
                 ELSE IF IsException(ex.fault)
                 THEN Result(FALSE, ex.out, SandboxError(ex.err, TypedError(ex.fault)), FALSE,
                             EmptyNs, <<>>)
                 ELSE Propagated,
      obs |-> o]

-----------------------------------------------------------------------------
(* modal_sandbox_test.run_notebook_cell *)

(* f"<{type(value).__name__} object>" *)
Placeholder(value) == StrV(<<"<", TypeName(value), " object>">>)

(* StateToSave keeping str(value) of every value. *)
StateToSaveAsText(ns) ==
  [key \in {k \in DOMAIN ns : ~StartsWithDunder(k)} |-> StrV(Str(ns[key]))]

(* StateToSave leaving out what cannot be pickled. *)
StateToSaveOmits(ns) ==
  [key \in {k \in DOMAIN ns : ~StartsWithDunder(k) /\ Picklable(ns[k])} |-> ns[key]]

(* StateToSave dropping only the names that both start and end with '__'. *)
StateToSaveKeepsPrivate(ns) ==
  [key \in {k \in DOMAIN ns : ~(StartsWithDunder(k) /\ k[Len(k)] = "_")} |->
     IF Picklable(ns[key]) THEN ns[key] ELSE Placeholder(ns[key])]

(* StateToSave taking a string for a value that cannot be kept. *)
StateToSaveMarksStrings(ns) ==
  [key \in {k \in DOMAIN ns : ~StartsWithDunder(k)} |->
     IF Picklable(ns[key]) /\ ns[key].tag # "str" THEN ns[key] ELSE Placeholder(ns[key])]

(* Lines 144-153: the state to save. *)
StateToSave(ns) ==
  [key \in {k \in DOMAIN ns : ~StartsWithDunder(k)} |->
     IF Picklable(ns[key]) THEN ns[key] ELSE Placeholder(ns[key])]

(* RestoredNamespace starting every cell from nothing. *)
RestoredNamespaceFresh(previousState) == EmptyNs

(* Line 125: exec_namespace = previous_state if previous_state else {} *)
RestoredNamespace(previousState) == IF previousState # EmptyNs THEN previousState ELSE EmptyNs

(* Lines 155-159: the state of a cell that ran through, and of one that
   faulted (result["state"] stays {}). *)
CellSuccess(output, ns) == Result(TRUE, output, <<>>, FALSE, StateToSave(ns), <<>>)

CellFailure(output, kind) ==
  IF IsException(kind) THEN Result(FALSE, output, TypedError(kind), FALSE, EmptyNs, <<>>)
  ELSE Propagated

(* run_notebook_cell(code, previous_state).  Only sys.stdout is replaced:
   what the code writes to sys.stderr goes to the process's error stream. *)
RunNotebookCell(code, previousState) ==
  LET ns0 == RestoredNamespace(previousState)
      ex == Exec(code, Scope(ns0, EmptyNs, TRUE))
      o == Obs(ex.out, ex.err, ex.out, ex.fault, IF ex.fault = NoFault THEN "none" ELSE "code",
               TRUE, ns0, ex.bound, ex.g, 0, <<>>)
  IN [result |-> IF ex.fault = NoFault THEN CellSuccess(ex.out, ex.g)
                 ELSE CellFailure(ex.out, ex.fault),
      obs |-> o]


-----------------------------------------------------------------------------
(* The process *)

Functions == {"execute_code", "run_code", "execute_endpoint", "run", "sandbox_run_code",
              "run_notebook_cell"}

(* sys.__stdout__ and sys.__stderr__, and the sinks a host (a test runner, a
   notebook kernel, a log collector) may have installed before the first call. *)
OrigStdout == "sys.__stdout__"
OrigStderr == "sys.__stderr__"
HostStdout == "host stdout"
HostStderr == "host stderr"

(* execute_code lines 57-58 and 155-158: the saved sinks are put back. *)
ExecutorRestore(old, orig) == old

(* run lines 51-53: sys.stdout = sys.__stdout__; sys.stderr = sys.__stderr__ *)
QuickRestore(old, orig) == orig

(* modal_sandbox_test.run_code lines 53-54 and 92-95 *)
SandboxRestore(old, orig) == old

(* run_notebook_cell lines 128 and 162: sys.stdout only *)
NotebookRestore(old, orig) == old

NoInput == [url |-> FALSE, hint |-> "None", fetch |-> "ok", decode |-> "ok"]
NoOutput == [url |-> FALSE, put |-> "ok"]

(* Input URLs, type hints and what the object store and the decoders answer. *)
InputCases ==
  { NoInput, [url |-> FALSE, hint |-> "csv", fetch |-> "ok", decode |-> "ok"],
    [url |-> TRUE, hint |-> "csv", fetch |-> "fail", decode |-> "ok"] } \cup
  { [url |-> TRUE, hint |-> h, fetch |-> "ok", decode |-> d] :
      h \in {"csv", "xpt", "pdf"}, d \in {"ok", "fail"} } \cup
  { [url |-> TRUE, hint |-> h, fetch |-> "ok", decode |-> "ok"] : h \in {"None", "json"} }

OutputCases == { NoOutput, [url |-> TRUE, put |-> "ok"], [url |-> TRUE, put |-> "fail"] }

(* The wrapper is called with fewer cases: it hands them to execute_code. *)
WrapperInputCases ==
  { i \in InputCases : i = NoInput \/ (i.url /\ i.hint = "csv" /\ i.decode = "ok") }
WrapperOutputCases == { o \in OutputCases : o.put = "ok" }
Timeouts == {0, 120, 601}

(* The timeouts requests to /execute come with. *)
RequestTimeouts == {0, 1, 120, 600, 601}

(* What run_code asks of the runtime for the function it dispatches. *)
Requested(timeout) ==
  [made |-> TRUE, timeout |-> RequestedTimeout(timeout), memory |-> RequestedMemory(timeout)]

NotRequested == [made |-> FALSE, timeout |-> 0, memory |-> 0]

(* The cells of a session: code that has to do with no output file. *)
SessionCodes ==
  { c \in Codes : \A i \in DOMAIN c.stmts :
      c.stmts[i].name # NameOutputContent /\ c.stmts[i].text # "Successfully uploaded to S3" }

(* Prior states a caller may start a session with. *)
InitialStates == { EmptyNs, Put(EmptyNs, NameT, IntV("1")) }

(* A call: its arguments, what its environment answers, the timeout and the
   memory asked of the runtime for it, and the sinks installed as it begins. *)
Call(fn, code, inp, outp, timeout, dispatch, surface, prior) ==
  [fn |-> fn, code |-> code, inp |-> inp, outp |-> outp, timeout |-> timeout,
   dispatch |-> dispatch, surface |-> surface, prior |-> prior,
   requested |-> IF fn = "run_code" THEN Requested(timeout) ELSE NotRequested,
   preStdout |-> sysStdout, preStderr |-> sysStderr]

NoCode == [wellformed |-> TRUE, stmts |-> <<>>]
NoCall == [fn |-> "none", code |-> NoCode, inp |-> NoInput, outp |-> NoOutput, timeout |-> 0,
           dispatch |-> "ok", surface |-> "wrapped", prior |-> EmptyNs,
           requested |-> NotRequested,
           preStdout |-> "", preStderr |-> ""]

(* What the caller of the session holds.  valid: its state came back from a
   cell; success and plain: of the cell it last took the state of; good: the
   state the last successful cell returned (the session's first state before
   that); afterFault: the cell just run faulted; interactive: the caller has
   gone on as interactive does each time. *)
NotHanded == [valid |-> FALSE, success |-> FALSE, plain |-> EmptyNs, good |-> EmptyNs,
              afterFault |-> FALSE, interactive |-> TRUE]

(* The names a cell bound to a number or a string, with their values as the
   cell ends. *)
PlainBound(o) ==
  [n \in {k \in o.bound : k \in DOMAIN o.endNs /\ o.endNs[k].tag \in {"int", "str"}} |->
     o.endNs[n]]

-----------------------------------------------------------------------------
(* Two calls of execute_code in flight at once, each taken a line at a time *)

(* The application whose calls of execute_code overlap. *)
Overlapping == "execute_code, two calls"

(* The calls in flight, and the containers the runtime has for them. *)
Workers == {1, 2}
Containers == {1, 2}

(* ContainerOf with both calls put into one container, as threads of one
   process. *)
ContainerShared(w) == 1

(* @app.function(image, timeout, memory, cpu), with no option that lets a
   container take several inputs at once: a container runs one call at a
   time, so two calls in flight run in two containers, each a process with
   its own sys module. *)
ContainerOf(w) == w

(* A sink: a stream the process started with, or the io.StringIO() that call
   w made for a stream. *)
ProcessSink(stream) == [kind |-> "sys.__std__", call |-> 0, stream |-> stream]
StringIO(w, stream) == [kind |-> "StringIO", call |-> w, stream |-> stream]

(* Text as a buffer holds it: each chunk with the call that wrote it. *)
WrittenBy(w, text) == [k \in 1..Len(text) |-> [by |-> w, text |-> text[k]]]

(* stdout.getvalue() *)
GetValue(entries) == [k \in 1..Len(entries) |-> entries[k].text]

(* sink.write(text) by call w: a StringIO keeps it; what goes to a stream of
   the process is not part of any result. *)
Write(io, sink, w, text) ==
  IF sink.kind = "StringIO"
  THEN [io EXCEPT ![sink.call][sink.stream] = @ \o WrittenBy(w, text)]
  ELSE io

(* The code of the overlapping calls: printing, writing to the error stream,
   faulting. *)
OverlapCodes ==
  { c \in Codes :
      \A i \in DOMAIN c.stmts :
         c.stmts[i] \in { Stmt("print", <<>>, NoVal, "a"), Stmt("eprint", <<>>, NoVal, "w"),
                          Stmt("raise", <<>>, NoVal, "ZeroDivisionError") } }

(* A call in flight.  at: "none", "entered" (lines 53-60 done), "returned";
   i: the statement to run next, 0 for the banner of line 111; seen: the
   sinks the call found in sys.stdout and sys.stderr when it looked;
   overlapped: another call was in flight while this one was. *)
NoRemoteCall ==
  [at |-> "none", code |-> NoCode, i |-> 0, sc |-> Scope(EmptyNs, EmptyNs, TRUE),
   old_stdout |-> ProcessSink("stdout"), old_stderr |-> ProcessSink("stderr"),
   seen |-> {}, overlapped |-> FALSE, result |-> NoResult]

NoBuffers == [stdout |-> <<>>, stderr |-> <<>>]

NoRemote ==
  [sys |-> [c \in Containers |-> [stdout |-> ProcessSink("stdout"),
                                  stderr |-> ProcessSink("stderr")]],
   io |-> [w \in Workers |-> NoBuffers],
   calls |-> [w \in Workers |-> NoRemoteCall]]

(* The part of the call's code still to run. *)
RemoteRunning(c) ==
  /\ c.at = "entered" /\ c.sc.fault = NoFault
  /\ c.i <= (IF c.code.wellformed THEN Len(c.code.stmts) ELSE 1)

(* Lines 53-60: call w enters execute_code: it makes its two buffers, saves
   the sinks of its process and installs the buffers in their place. *)
RemoteEnter(w) ==
  /\ app = Overlapping /\ modal.calls[w].at = "none"
  /\ \E code \in OverlapCodes :
       LET c == ContainerOf(w)
           others == {v \in Workers \ {w} : modal.calls[v].at = "entered"}
       IN modal' =
            [sys |-> [modal.sys EXCEPT ![c] = [stdout |-> StringIO(w, "stdout"),
                                                stderr |-> StringIO(w, "stderr")]],
             io |-> [modal.io EXCEPT ![w] = NoBuffers],
             calls |-> [v \in Workers |->
                          IF v = w
                          THEN [at |-> "entered", code |-> code, i |-> 0,
                                sc |-> Scope(ExecutorNamespace, EmptyNs, TRUE),
                                old_stdout |-> modal.sys[c].stdout,
                                old_stderr |-> modal.sys[c].stderr,
                                seen |-> {modal.sys[c].stdout, modal.sys[c].stderr},
                                overlapped |-> others # {}, result |-> NoResult]
                          ELSE IF v \in others
                          THEN [modal.calls[v] EXCEPT !.overlapped = TRUE]
                          ELSE modal.calls[v]]]
  /\ UNCHANGED <<app, sysStdout, sysStderr, quickGlobals, state, handed, pc, call, result, obs>>

(* Lines 111-112: call w prints the banner, then exec compiles the code and
   runs it a statement at a time.  print writes to whatever sys.stdout of
   the process is as the statement runs. *)
RemoteStep(w) ==
  /\ app = Overlapping /\ RemoteRunning(modal.calls[w])
  /\ LET c == ContainerOf(w)
         me == modal.calls[w]
         sinks == modal.sys[c]
         ran == IF me.i = 0 THEN [me.sc EXCEPT !.out = Banner]
                ELSE IF ~me.code.wellformed THEN [me.sc EXCEPT !.fault = "SyntaxError"]
                ELSE RunStmt(me.sc, me.code.stmts[me.i])
     IN modal' =
          [modal EXCEPT
             !.io = Write(Write(@, sinks.stdout, w, ran.out), sinks.stderr, w, ran.err),
             !.calls[w] = [me EXCEPT !.i = @ + 1,
                                     !.sc = [ran EXCEPT !.out = <<>>, !.err = <<>>],
                                     !.seen = @ \cup {sinks.stdout, sinks.stderr}]]
  /\ UNCHANGED <<app, sysStdout, sysStderr, quickGlobals, state, handed, pc, call, result, obs>>

(* Lines 137-158: call w reads its own buffers into its result, after the
   code ended or faulted, and puts the saved sinks back. *)
RemoteReturn(w) ==
  /\ app = Overlapping
  /\ modal.calls[w].at = "entered" /\ ~RemoteRunning(modal.calls[w])
  /\ LET c == ContainerOf(w)
         me == modal.calls[w]
         output == GetValue(modal.io[w].stdout)
         error == GetValue(modal.io[w].stderr)
     IN modal' =
          [modal EXCEPT
             !.sys[c] = [stdout |-> me.old_stdout, stderr |-> me.old_stderr],
             !.calls[w] = [me EXCEPT !.at = "returned",
                                     !.result = IF me.sc.fault = NoFault
                                                THEN ExecutorSuccess(output, error)
                                                ELSE ExecutorFailure(output, me.sc.fault)]]
  /\ UNCHANGED <<app, sysStdout, sysStderr, quickGlobals, state, handed, pc, call, result, obs>>

(* The caller has the result of call w; the runtime may hand the container
   its next call. *)
RemoteCollect(w) ==
  /\ app = Overlapping /\ modal.calls[w].at = "returned"
  /\ modal' = [modal EXCEPT !.calls[w] = NoRemoteCall, !.io[w] = NoBuffers]
  /\ UNCHANGED <<app, sysStdout, sysStderr, quickGlobals, state, handed, pc, call, result, obs>>

Init ==
  /\ app \in Functions \cup {Overlapping}
  /\ modal = NoRemote
  /\ \E hosted \in BOOLEAN :
       /\ sysStdout = IF hosted THEN HostStdout ELSE OrigStdout
       /\ sysStderr = IF hosted THEN HostStderr ELSE OrigStderr
  /\ quickGlobals = QuickModuleNamespace
  /\ state \in (IF app = "run_notebook_cell" THEN InitialStates ELSE {EmptyNs})
  /\ handed = [NotHanded EXCEPT !.good = state]
  /\ pc = "idle"
  /\ call = NoCall
  /\ result = NoResult
  /\ obs = NoObs

(* execute_code(code, input_file_url, output_file_url, file_type) on its worker *)
ExecuteCodeCall ==
  /\ app = "execute_code" /\ pc = "idle"
  /\ \E code \in Codes, inp \in InputCases, outp \in OutputCases :
       LET r == ExecuteCode(code, inp, outp)
       IN /\ call' = Call("execute_code", code, inp, outp, 0, "ok", "wrapped", EmptyNs)
          /\ result' = r.result
          /\ obs' = r.obs
  /\ sysStdout' = ExecutorRestore(sysStdout, OrigStdout)
  /\ sysStderr' = ExecutorRestore(sysStderr, OrigStderr)
  /\ pc' = "done"
  /\ UNCHANGED <<modal, app, quickGlobals, state, handed>>

(* run_code(code, timeout, input_file_url, output_file_url, file_type) on the server *)
RunCodeCall ==
  /\ app = "run_code" /\ pc = "idle"
  /\ \E code \in Codes, timeout \in Timeouts, inp \in WrapperInputCases,
        outp \in WrapperOutputCases, dispatch \in {"ok", "timeout"},
        surface \in {"wrapped", "raw"} :
       \E r \in {RunCode(code, timeout, inp, outp, dispatch, surface)} :
          /\ dispatch = "timeout" => RunsOn(code, inp)
          /\ surface = "raw" => dispatch = "ok" /\ ExecuteCode(code, inp, outp).result.kind = "propagated"
          /\ call' = Call("run_code", code, inp, outp, timeout, dispatch, surface, EmptyNs)
          /\ result' = r.result
          /\ obs' = r.obs
  /\ pc' = "done"
  /\ UNCHANGED <<modal, app, sysStdout, sysStderr, quickGlobals, state, handed>>

(* POST /execute on the server *)
ExecuteEndpointCall ==
  /\ app = "execute_endpoint" /\ pc = "idle"
  /\ \E code \in Codes, timeout \in RequestTimeouts, inp \in WrapperInputCases,
        outp \in WrapperOutputCases, dispatch \in {"ok", "timeout"},
        surface \in {"wrapped", "raw"} :
       \E r \in {ExecuteEndpoint(code, timeout, inp, outp, dispatch, surface)} :
          /\ dispatch = "timeout" => r.reached /\ RunsOn(code, inp)
          /\ surface = "raw" =>
               /\ r.reached /\ dispatch = "ok"
               /\ ExecuteCode(code, inp, outp).result.kind = "propagated"
          /\ call' = [Call("execute_endpoint", code, inp, outp, timeout, dispatch, surface,
                           EmptyNs)
                      EXCEPT !.requested = IF r.reached THEN Requested(r.timeout)
                                           ELSE NotRequested]
          /\ result' = r.result
          /\ obs' = r.obs
  /\ pc' = "done"
  /\ UNCHANGED <<modal, app, sysStdout, sysStderr, quickGlobals, state, handed>>

(* run(code) on its worker *)
QuickRunCall ==
  /\ app = "run" /\ pc = "idle"
  /\ \E code \in Codes :
       LET r == QuickRun(code, quickGlobals)
       IN /\ call' = Call("run", code, NoInput, NoOutput, 0, "ok", "wrapped", EmptyNs)
          /\ result' = r.result
          /\ obs' = r.obs
          /\ quickGlobals' = r.g
  /\ sysStdout' = QuickRestore(sysStdout, OrigStdout)
  /\ sysStderr' = QuickRestore(sysStderr, OrigStderr)
  /\ pc' = "done"
  /\ UNCHANGED <<modal, app, state, handed>>

(* modal_sandbox_test.run_code(code) on its worker *)
SandboxRunCodeCall ==
  /\ app = "sandbox_run_code" /\ pc = "idle"
  /\ \E code \in Codes :
       LET r == SandboxRunCode(code)
       IN /\ call' = Call("sandbox_run_code", code, NoInput, NoOutput, 0, "ok", "wrapped", EmptyNs)
          /\ result' = r.result
          /\ obs' = r.obs
  /\ sysStdout' = SandboxRestore(sysStdout, OrigStdout)
  /\ sysStderr' = SandboxRestore(sysStderr, OrigStderr)
  /\ pc' = "done"
  /\ UNCHANGED <<modal, app, quickGlobals, state, handed>>

(* run_notebook_cell(code, state) on its worker: the caller's state travels
   as a copy. *)
NotebookCellCall ==
  /\ app = "run_notebook_cell" /\ pc = "idle"
  /\ \E code \in SessionCodes :
       LET r == RunNotebookCell(code, state)
       IN /\ call' = Call("run_notebook_cell", code, NoInput, NoOutput, 0, "ok", "wrapped", state)
          /\ result' = r.result
          /\ obs' = r.obs
  /\ sysStdout' = NotebookRestore(sysStdout, OrigStdout)
  /\ pc' = "done"
  /\ UNCHANGED <<modal, app, sysStderr, quickGlobals, state, handed>>

Forget == call' = NoCall /\ result' = NoResult /\ obs' = NoObs

(* The caller of a one-shot function reads the result and goes on. *)
CallerContinues ==
  /\ pc = "done" /\ call.fn # "run_notebook_cell"
  /\ pc' = "idle"
  /\ Forget
  /\ UNCHANGED <<modal, app, sysStdout, sysStderr, quickGlobals, state, handed>>

(* modal_sandbox_test.main line 292: the next cell gets result['state'],
   whatever the cell's success. *)
MainPassesState ==
  /\ pc = "done" /\ call.fn = "run_notebook_cell" /\ result.kind = "result"
  /\ state' = result.state
  /\ handed' = [valid |-> TRUE, success |-> result.success, plain |-> PlainBound(obs),
                good |-> IF result.success THEN result.state ELSE handed.good,
                afterFault |-> ~result.success, interactive |-> FALSE]
  /\ pc' = "idle"
  /\ Forget
  /\ UNCHANGED <<modal, app, sysStdout, sysStderr, quickGlobals>>

(* InteractiveUpdatesState taking the state of a faulted cell too. *)
InteractiveTakesEveryState ==
  /\ pc = "done" /\ call.fn = "run_notebook_cell"
  /\ IF result.kind = "result"
     THEN /\ state' = result.state
          /\ handed' = [valid |-> TRUE, success |-> result.success, plain |-> PlainBound(obs),
                        good |-> IF result.success THEN result.state ELSE handed.good,
                        afterFault |-> ~result.success,
                        interactive |-> handed.interactive]
     ELSE /\ state' = state
          /\ handed' = [handed EXCEPT !.afterFault = TRUE]
  /\ pc' = "idle"
  /\ Forget
  /\ UNCHANGED <<modal, app, sysStdout, sysStderr, quickGlobals>>

(* modal_sandbox_test.interactive lines 331-336: the state is replaced only
   after a successful cell. *)
InteractiveUpdatesState ==
  /\ pc = "done" /\ call.fn = "run_notebook_cell"
  /\ IF result.kind = "result" /\ result.success
     THEN /\ state' = result.state
          /\ handed' = [valid |-> TRUE, success |-> TRUE, plain |-> PlainBound(obs),
                        good |-> result.state, afterFault |-> FALSE,
                        interactive |-> handed.interactive]
     ELSE /\ state' = state
          /\ handed' = [handed EXCEPT !.afterFault = TRUE]
  /\ pc' = "idle"
  /\ Forget
  /\ UNCHANGED <<modal, app, sysStdout, sysStderr, quickGlobals>>

Next ==
  \/ \E w \in Workers : RemoteEnter(w)
  \/ \E w \in Workers : RemoteStep(w)
  \/ \E w \in Workers : RemoteReturn(w)
  \/ \E w \in Workers : RemoteCollect(w)
  \/ ExecuteCodeCall
  \/ RunCodeCall
  \/ ExecuteEndpointCall
  \/ QuickRunCall
  \/ SandboxRunCodeCall
  \/ NotebookCellCall
  \/ CallerContinues
  \/ MainPassesState
  \/ InteractiveUpdatesState

Spec == Init /\ [][Next]_vars


-----------------------------------------------------------------------------
(* Properties *)

OneShot == {"execute_code", "run_code", "run", "sandbox_run_code"}

Contains(text, chunk) == \E i \in 1..Len(text) : text[i] = chunk

(* The names the statements of the model bind. *)
UserNames == {NameX, NameM, NameT, NameOutputContent}

OnlyPrints(code) ==
  code.wellformed /\ \A i \in 1..Len(code.stmts) : code.stmts[i].op = "print"

(* The text a code string of print statements prints: each text and its
   line end, in order. *)
RECURSIVE PrintedBy(_, _)
PrintedBy(stmts, i) ==
  IF i > Len(stmts) THEN <<>> ELSE <<stmts[i].text, "\n">> \o PrintedBy(stmts, i + 1)

(* A one-shot call with no input and no output URL whose dispatch, if any,
   was not abandoned. *)
PlainOneShot ==
  pc = "done" /\ call.fn \in OneShot /\ ~call.inp.url /\ ~call.outp.url /\ call.dispatch = "ok"

(* What the engine itself writes to the output before the code's text. *)
EnginePrefix(fn) == IF fn \in {"execute_code", "run_code"} THEN Banner ELSE <<>>

(* C1, as stated: code that only prints and raises nothing, run one-shot
   with no input or output URL, returns success=true and an output equal to
   exactly the printed text. *)
C1_OutputIsExactlyPrinted ==
  (PlainOneShot /\ OnlyPrints(call.code)) =>
    /\ result.kind = "result" /\ result.success
    /\ result.output = PrintedBy(call.code.stmts, 1)

(* C1, amended: such a call returns success=true and an output that is the
   printed text with nothing after it, preceded in execute_code (and run_code,
   which dispatches to it) by the banner line the engine prints before it runs
   the code, and by nothing in run and in the sandbox's run_code. *)
C1_OutputIsBannerThenPrinted ==
  (PlainOneShot /\ OnlyPrints(call.code)) =>
    /\ result.kind = "result" /\ result.success
    /\ result.output = EnginePrefix(call.fn) \o PrintedBy(call.code.stmts, 1)

C1_Witness ==
  /\ PlainOneShot /\ call.fn = "execute_code" /\ OnlyPrints(call.code)
  /\ Len(call.code.stmts) = 2
  /\ result.success /\ result.output = Banner \o <<"a", "\n", "a", "\n">>

(* C2: whenever the code raised a fault, the call returns success=false and
   an error text that contains the name of the fault's type. *)
C2_FaultNamedInError ==
  (pc = "done" /\ obs.stage = "code") =>
    /\ result.kind = "result" /\ ~result.success
    /\ Contains(result.error, ExcName(obs.fault))

(* C3: a failing result whose fault arose in the input step, in the code or
   in the output step carries in its output field all the text written to the
   output stream before the fault. *)
C3_FailureKeepsOutput ==
  (/\ pc = "done" /\ result.kind = "result" /\ ~result.success
   /\ obs.stage \in {"input", "code", "output"})
    => result.output = obs.written

C3_Witness ==
  /\ pc = "done" /\ call.fn = "execute_code" /\ call.inp.url /\ obs.stage = "code"
  /\ result.kind = "result" /\ ~result.success
  /\ obs.printed = <<"a", "\n">>
  /\ result.output = MsgDownloading \o MsgDownloaded \o Banner \o <<"a", "\n">>

(* C4: execute_code and run_code always end by returning a result value;
   no fault leaves them. *)
C4_AlwaysAResult ==
  (pc = "done" /\ call.fn \in {"execute_code", "run_code"}) => result.kind = "result"

(* C5: when a call has ended, normally or with a fault, sys.stdout and
   sys.stderr are the sinks that were installed when it began. *)
C5_SinksAsBefore ==
  pc = "done" => sysStdout = call.preStdout /\ sysStderr = call.preStderr

(* C6: a call reports success=true exactly when no fault was raised, and the
   text that fault-free code wrote to the error stream is returned in the
   error field. *)
C6_SuccessIffNoFault ==
  (pc = "done" /\ result.kind = "result") =>
    /\ result.success <=> obs.fault = NoFault
    /\ obs.fault = NoFault => result.error = obs.eprinted

(* C7: the code of a one-shot call starts with none of the names an earlier
   call's code bound. *)
C7_FreshNamespace ==
  (pc = "done" /\ call.fn \in OneShot /\ obs.ran) => DOMAIN obs.startNs \cap UserNames = {}

(* The cell that has ended is the one after the cell whose returned state
   the caller passed back unmodified. *)
NextCell == pc = "done" /\ call.fn = "run_notebook_cell" /\ handed.valid

Sees(name, value) == name \in DOMAIN obs.startNs /\ obs.startNs[name] = value

(* C8, as stated: every name call N bound to a number or a string is seen
   with the same value by the code of call N+1. *)
C8_PlainValuesCarried ==
  NextCell => \A n \in DOMAIN handed.plain : Sees(n, handed.plain[n])

(* C8, amended: every name not starting with a double underscore that a call
   N which ended without a fault bound to a number or a string is seen with
   the same value by the code of call N+1. *)
C8_PlainValuesCarriedAfterSuccess ==
  (NextCell /\ handed.success) =>
    \A n \in DOMAIN handed.plain : ~StartsWithDunder(n) => Sees(n, handed.plain[n])

C8_Witness ==
  /\ NextCell /\ handed.success /\ NameX \in DOMAIN handed.plain
  /\ call.code.stmts = <<Stmt("printvar", NameX, NoVal, "")>>
  /\ result.success /\ result.output = <<"1", "\n">>

(* The state the cell returned names n by a text that contains the type
   name of the value n is bound to. *)
HasPlaceholder(n) ==
  /\ n \in DOMAIN result.state
  /\ result.state[n].tag = "str"
  /\ Contains(result.state[n].v, TypeName(obs.endNs[n]))

Unpicklable(ns) == {n \in DOMAIN ns : ~StartsWithDunder(n) /\ ~Picklable(ns[n])}

(* C9, as stated: in the state a cell returns, every non-reserved name whose
   value fails the probe is mapped to a text containing the value's type
   name. *)
C9_PlaceholderForUnpicklable ==
  (pc = "done" /\ call.fn = "run_notebook_cell" /\ result.kind = "result") =>
    \A n \in Unpicklable(obs.endNs) : HasPlaceholder(n)

(* C9, amended: the same, in the state returned by a cell that ended without
   a fault. *)
C9_PlaceholderAfterSuccess ==
  (pc = "done" /\ call.fn = "run_notebook_cell" /\ result.kind = "result" /\ result.success) =>
    \A n \in Unpicklable(obs.endNs) : HasPlaceholder(n)

C9_Witness ==
  /\ pc = "done" /\ call.fn = "run_notebook_cell" /\ result.success
  /\ NameM \in obs.bound
  /\ result.state[NameM] = StrV(<<"<", "module", " object>">>)

(* C10: no key of a returned session state starts with a double underscore. *)
C10_NoReservedKey ==
  (pc = "done" /\ call.fn = "run_notebook_cell" /\ result.kind = "result") =>
    \A k \in DOMAIN result.state : ~StartsWithDunder(k)

C10_Witness ==
  /\ pc = "done" /\ call.fn = "run_notebook_cell" /\ result.success
  /\ NameT \in DOMAIN call.prior /\ NameT \in obs.bound
  /\ NameBuiltins \in DOMAIN obs.endNs
  /\ DOMAIN result.state = {NameX}

-----------------------------------------------------------------------------
(* Input and output files *)

(* The engine's entry points. *)
Engine == {"execute_code", "run_code"}

EngineCall == pc = "done" /\ call.fn \in Engine

(* No fault arose before the output step. *)
CameToOutputStep == obs.ran /\ (obs.fault = NoFault \/ obs.stage = "output")

(* C11: when an output URL is given and the code, having run, leaves no
   output_content in the namespace, requests.put is never called, and the
   call returns success=true if nothing raised a fault. *)
C11_NoUploadWithoutOutputContent ==
  (EngineCall /\ call.outp.url /\ obs.ran /\ NameOutputContent \notin DOMAIN obs.endNs)
    => /\ obs.uploads = <<>>
       /\ obs.fault = NoFault => result.kind = "result" /\ result.success

C11_Witness ==
  /\ EngineCall /\ call.outp.url /\ obs.ran /\ obs.bound # {}
  /\ NameOutputContent \notin DOMAIN obs.endNs
  /\ obs.fault = NoFault /\ result.success /\ obs.uploads = <<>>

(* C12: when the input fetch, the decoding or the code raised a fault (or
   the call was abandoned), requests.put is never called, also when
   output_content was bound before the fault. *)
C12_NoUploadAfterFault ==
  (EngineCall /\ obs.fault # NoFault /\ obs.stage # "output") => obs.uploads = <<>>

C12_Witness ==
  /\ EngineCall /\ call.outp.url /\ obs.stage = "code" /\ obs.fault = "ZeroDivisionError"
  /\ NameOutputContent \in DOMAIN obs.endNs
  /\ obs.uploads = <<>> /\ ~result.success

(* The output step ran: an output URL, output_content bound, no fault before. *)
OutputStepRan ==
  /\ EngineCall /\ call.outp.url /\ CameToOutputStep
  /\ NameOutputContent \in DOMAIN obs.endNs

(* What the output step hands to requests.put, by the type of output_content:
   the bytes of a text, the CSV text of a table without an index column,
   any other value as it is. *)
UploadChosenByType ==
  LET v == obs.endNs[NameOutputContent]
      put == obs.uploads[1]
  IN /\ Len(obs.uploads) = 1
     /\ v.tag = "str" => put.data = BytesV(v.v)
     /\ v = StrV(<<"hello">>) /\ put.sent => put.body = <<"hello">> /\ ByteLen(put.body) = 5
     /\ v = TableV(<<"a,b", "1,2">>) => put.data = BytesV(<<"a,b", "\n", "1,2", "\n">>)
     /\ v.tag \notin {"str", "DataFrame"} => put.data = v
     /\ v.tag \in {"str", "DataFrame", "bytes"} /\ put.sent => put.body = put.data.v

(* C13, as stated: when the output step runs, the uploaded bytes are chosen
   by the type of output_content and the call returns success=true. *)
C13_UploadByTypeThenSuccess ==
  OutputStepRan => UploadChosenByType /\ result.kind = "result" /\ result.success

(* C13, amended: when the output step runs, the uploaded bytes are chosen by
   the type of output_content, and the call returns success=true exactly
   when the request takes the value as a body, the store accepts it and the
   length of the value can be taken. *)
C13_UploadByTypeSuccessIfAccepted ==
  OutputStepRan =>
    /\ UploadChosenByType
    /\ result.kind = "result"
    /\ result.success <=> (obs.uploads[1].accepted /\ HasLen(obs.uploads[1].data))

C13_Witness ==
  /\ OutputStepRan /\ obs.endNs[NameOutputContent] = StrV(<<"hello">>)
  /\ obs.uploads = <<PutCall(BytesV(<<"hello">>), TRUE, TRUE)>>
  /\ result.success

(* C14: when output_content is neither a text, a table nor bytes, the output
   step fails: the call returns success=false, nothing is uploaded, and the
   output captured so far is returned. *)
C14_UnserializableRefused ==
  (OutputStepRan /\ obs.endNs[NameOutputContent].tag \notin {"str", "DataFrame", "bytes"})
    => /\ result.kind = "result" /\ ~result.success
       /\ \A i \in DOMAIN obs.uploads : ~obs.uploads[i].sent
       /\ result.output = obs.written

(* C15: when an input URL is given and the fetch succeeds, the code runs
   against a namespace that binds file_content to the downloaded bytes,
   whatever the type hint. *)
C15_RawBytesBound ==
  (EngineCall /\ call.inp.url /\ call.inp.fetch = "ok" /\ obs.ran)
    => /\ NameFileContent \in DOMAIN obs.startNs
       /\ obs.startNs[NameFileContent] = BytesV(FileBody)

C15_Witness ==
  /\ EngineCall /\ call.inp.url /\ call.inp.hint = "csv" /\ obs.ran
  /\ obs.startNs[NameFileContent] = BytesV(FileBody)
  /\ NameDf \in DOMAIN obs.startNs

(* The names the decoder of a type hint binds. *)
DecodedNames(hint) ==
  CASE hint = "csv" -> {NameDf}
    [] hint = "xpt" -> {NameDf, NameMeta}
    [] hint = "pdf" -> {NamePdfReader}
    [] OTHER -> {}

(* C16: of file_content, df, meta and pdf_reader, the namespace the code
   runs against binds none when no input URL is given, and otherwise
   file_content and the names that belong to the type hint. *)
C16_BindingsByHint ==
  (EngineCall /\ obs.ran)
    => DOMAIN obs.startNs \cap InputBindings =
         IF call.inp.url THEN {NameFileContent} \cup DecodedNames(call.inp.hint) ELSE {}

C16_Witness ==
  /\ EngineCall /\ obs.ran /\ call.inp.url /\ call.inp.hint = "xpt"
  /\ DOMAIN obs.startNs \cap InputBindings = {NameFileContent, NameDf, NameMeta}

(* C17: when the input fetch is answered with a non-success status, the
   call returns success=false, the code is not run, requests.put is never
   called and the fetch was made once. *)
C17_FetchFailureIsFatal ==
  (EngineCall /\ call.inp.url /\ call.inp.fetch # "ok")
    => /\ result.kind = "result" /\ ~result.success
       /\ ~obs.ran
       /\ obs.uploads = <<>>
       /\ obs.fetches = 1

C17_Witness ==
  /\ EngineCall /\ call.inp.url /\ call.inp.fetch # "ok" /\ call.outp.url
  /\ call.code.stmts # <<>>
  /\ ~result.success /\ ~obs.ran /\ obs.fetches = 1

(* C18: when the fetched bytes cannot be decoded under the type hint, the
   code is not run and the call returns what a fault of the code returns:
   success=false, the output captured so far and an error naming the fault. *)
C18_DecodeFaultReported ==
  (EngineCall /\ call.inp.url /\ call.inp.fetch = "ok" /\ call.inp.decode # "ok")
    => /\ ~obs.ran
       /\ obs.fault \in {"ParserError", "ReadstatError", "PdfReadError"}
       /\ result.kind = "result" /\ ~result.success
       /\ result.output = MsgDownloading \o MsgDownloaded
       /\ result.error = TypedError(obs.fault)
       /\ Contains(result.error, ExcName(obs.fault))

C18_Witness ==
  /\ EngineCall /\ call.inp.url /\ call.inp.fetch = "ok" /\ call.inp.decode # "ok"
  /\ call.inp.hint = "pdf" /\ call.code.stmts # <<>>
  /\ ~obs.ran /\ ~result.success /\ Contains(result.error, "PdfReadError")

(* C19: the timeout asked of the runtime never exceeds 600 seconds, and for
   a request that came through /execute it is at least 1. *)
C19_TimeoutClamped ==
  (pc = "done" /\ call.requested.made)
    => /\ call.requested.timeout <= 600
       /\ call.fn = "execute_endpoint" => call.requested.timeout >= 1

C19_Witness ==
  /\ pc = "done" /\ call.fn = "run_code" /\ call.requested.made
  /\ call.timeout > 600 /\ call.requested.timeout = 600

(* C20: called with empty code, the engine returns a failure result and
   makes no fetch and no upload. *)
C20_EmptyCodeFailsFast ==
  (EngineCall /\ IsBlank(call.code))
    => /\ result.kind = "result" /\ ~result.success
       /\ obs.fetches = 0
       /\ obs.uploads = <<>>

-----------------------------------------------------------------------------
(* Sessions, timeouts and the request layer *)

SessionCall == pc = "done" /\ call.fn = "run_notebook_cell"

(* C22: in an interactive session, the call that follows a faulted call runs
   against exactly the state the last successful call returned: the faulted
   call added, removed and changed nothing. *)
C22_FaultLeavesSessionState ==
  (SessionCall /\ handed.interactive /\ handed.afterFault)
    => call.prior = handed.good /\ obs.startNs = handed.good

C22_Witness ==
  /\ SessionCall /\ handed.interactive /\ handed.afterFault /\ handed.valid
  /\ NameX \in DOMAIN handed.good
  /\ call.prior = handed.good
  /\ result.success

(* C23: when the runtime abandons a call on timeout, the caller gets a
   failure of the dispatch and no partial result: success=false, an empty
   output and the error text of run_code's handler; nothing the code had
   printed comes back. *)
C23_TimeoutGivesNoPartialResult ==
  (pc = "done" /\ call.fn \in {"run_code", "execute_endpoint"} /\ call.dispatch = "timeout")
    => /\ result.kind = "result" /\ ~result.success
       /\ result.output = <<>>
       /\ result.error = DispatchError("FunctionTimeoutError")
       /\ result.error[1] = "Modal execution error: "

C23_Witness ==
  /\ pc = "done" /\ call.fn = "run_code" /\ call.dispatch = "timeout"
  /\ obs.printed # <<>>
  /\ ~result.success /\ result.output = <<>>

ExecutionFunctions == {"execute_code", "run", "sandbox_run_code", "run_notebook_cell"}

(* C24: in every execution function the error text of a faulted call is the
   fault's type name, a colon and the message, followed by the trace. *)
C24_ErrorStartsWithFaultType ==
  (pc = "done" /\ call.fn \in ExecutionFunctions /\ obs.fault # NoFault
     /\ result.kind = "result")
    => /\ ~result.success
       /\ result.error = <<ExcName(obs.fault), ": ">> \o FaultMessage(obs.fault) \o <<"\n">>
                            \o FormatExc(obs.fault)

(* The lines the output step of a call wrote, given the calls of requests.put. *)
UploadLines(puts) ==
  IF puts = <<>> THEN {<<>>}
  ELSE {MsgUploading, MsgUploading \o MsgUploaded(LenText(puts[1].data))}

(* C25: within one call the input step (one fetch, if an input URL is
   given), the code and the output step (one upload, if an output URL is
   given and output_content is bound) happen in this order and at most once
   each, and a fault in a step leaves out the steps after it. *)
C25_StepsInOrderOnce ==
  EngineCall =>
    /\ obs.fetches = (IF call.inp.url THEN 1 ELSE 0)
    /\ Len(obs.uploads) <= 1
    /\ obs.ran <=> obs.stage # "input"
    /\ obs.stage \in {"input", "code"} => obs.uploads = <<>>
    /\ obs.uploads # <<>> =>
         call.outp.url /\ CameToOutputStep /\ NameOutputContent \in DOMAIN obs.endNs
    /\ \E tail \in UploadLines(obs.uploads) :
         obs.written = InputStep(call.inp, ExecutorNamespace).out
                         \o (IF obs.ran THEN Banner \o obs.printed ELSE <<>>)
                         \o tail

C25_Witness ==
  /\ EngineCall /\ call.inp.url /\ obs.fetches = 1 /\ obs.ran /\ obs.printed # <<>>
  /\ Len(obs.uploads) = 1 /\ obs.uploads[1].accepted
  /\ result.success

(* The names of a namespace that do not start with a double underscore. *)
Public(ns) == {n \in DOMAIN ns : ~StartsWithDunder(n)}

(* C26, as stated: every session call that returns, a faulted one too,
   returns a state whose keys are the non-reserved names of the namespace
   as the execution ends, those carried in from the prior state among them. *)
C26_StateAfterEveryCall ==
  (SessionCall /\ result.kind = "result")
    => /\ DOMAIN result.state = Public(obs.endNs)
       /\ Public(call.prior) \subseteq DOMAIN result.state

(* C26, amended: a session call that ends without a fault returns a state
   whose keys are the non-reserved names of the namespace as the execution
   ends, those carried in from the prior state among them; a faulted call
   returns the empty state. *)
C26_StateAfterSuccessEmptyAfterFault ==
  (SessionCall /\ result.kind = "result")
    => IF result.success
       THEN /\ DOMAIN result.state = Public(obs.endNs)
            /\ Public(call.prior) \subseteq DOMAIN result.state
       ELSE result.state = EmptyNs

C26_Witness ==
  /\ SessionCall /\ result.success
  /\ NameX \in DOMAIN call.prior /\ NameM \in obs.bound
  /\ DOMAIN result.state = {NameX, NameM}

EndpointCall == pc = "done" /\ call.fn = "execute_endpoint"

(* The code of the call is the empty text or whitespace only. *)
BlankCodeSent == call.code.wellformed /\ call.code.stmts = <<>>

(* C27, as stated: a request to /execute with empty or whitespace-only code
   is answered with status 400 and run_code is not called: no fetch, no
   execution and no upload happens for it. *)
C27_BlankCodeRejectedWith400 ==
  (EndpointCall /\ BlankCodeSent)
    => /\ result.kind = "http_error" /\ result.error[1] = "400"
       /\ ~call.requested.made
       /\ obs = NoObs

(* C27, amended: such a request is answered with an error status and
   run_code is not called: no fetch, no execution and no upload happens for
   it.  The status is 400 when the timeout field is within 1..600; a timeout
   outside that range is refused with 422 before the handler looks at the
   code. *)
C27_BlankCodeRejectedNotDispatched ==
  (EndpointCall /\ BlankCodeSent)
    => /\ result.kind = "http_error"
       /\ result.error[1] = (IF call.timeout >= 1 /\ call.timeout <= 600 THEN "400" ELSE "422")
       /\ ~call.requested.made
       /\ obs = NoObs

C27_Witness ==
  /\ EndpointCall /\ BlankCodeSent /\ call.outp.url
  /\ call.timeout = 120
  /\ result.error = <<"400", ": ", "Code cannot be empty">>
  /\ ~call.requested.made

(* C28: the response of /execute carries the note that the output file was
   uploaded only if an upload was made in that call and the store accepted
   it. *)
C28_UploadNoteOnlyAfterUpload ==
  (EndpointCall /\ result.kind = "result" /\ In(UploadNote[2], result.output))
    => \E i \in DOMAIN obs.uploads : obs.uploads[i].sent /\ obs.uploads[i].accepted

(* C29: a call of the engine that returns success=false has completed no
   upload: every call in which the store accepted the upload returns
   success=true, whatever the type of output_content. *)
C29_FailureMeansNoUpload ==
  (EngineCall /\ result.kind = "result" /\ ~result.success)
    => \A i \in DOMAIN obs.uploads : ~obs.uploads[i].accepted

(* C30, as stated: a state returned by a session call and passed back
   unmodified to a call whose code binds nothing is returned unchanged,
   placeholder strings included. *)
C30_FilterIdempotent ==
  (SessionCall /\ handed.valid /\ obs.bound = {} /\ result.kind = "result")
    => result.state = call.prior

(* C30, amended: the same for a call whose code binds nothing and ends
   without a fault. *)
C30_FilterIdempotentAfterSuccess ==
  (SessionCall /\ handed.valid /\ obs.bound = {} /\ result.kind = "result" /\ result.success)
    => result.state = call.prior

C30_Witness ==
  /\ SessionCall /\ handed.valid /\ obs.bound = {} /\ result.success
  /\ NameM \in DOMAIN call.prior
  /\ call.prior[NameM] = StrV(<<"<", "module", " object>">>)
  /\ result.state = call.prior

(* C21: two calls of execute_code in flight at once, under every
   interleaving of their lines: each call returns the result it returns when
   run alone, its buffers hold no text the other call wrote, and it never
   finds a buffer of the other call in sys.stdout or sys.stderr. *)
C21_OverlappingCallsIndependent ==
  \A w \in Workers :
    /\ modal.calls[w].at = "returned" =>
          modal.calls[w].result = ExecuteCode(modal.calls[w].code, NoInput, NoOutput).result
    /\ \A k \in DOMAIN modal.io[w].stdout : modal.io[w].stdout[k].by = w
    /\ \A k \in DOMAIN modal.io[w].stderr : modal.io[w].stderr[k].by = w
    /\ \A sink \in modal.calls[w].seen : sink.kind = "StringIO" => sink.call = w

C21_Witness ==
  /\ \A w \in Workers : modal.calls[w].at = "returned" /\ modal.calls[w].overlapped
  /\ modal.calls[1].result.success
  /\ modal.calls[1].result.output = Banner \o <<"a", "\n">>
  /\ modal.calls[1].result.error = <<"w", "\n">>
  /\ ~modal.calls[2].result.success
  /\ modal.calls[2].result.output = Banner \o <<"a", "\n">>
  /\ modal.calls[2].result.error = TypedError("ZeroDivisionError")

=============================================================================
